---- MODULE Spec2Model ----
(***************************************************************************)
(* Model of msh/lib/servctrl (servctrl.go): StartMS, StopMS, StopMSRequest  *)
(* and killMSifOnlineAfterTimeout, as concurrently running goroutines over  *)
(* the shared Stats.Status, Stats.StopMSRequests and ServTerm.cmd.          *)
(*                                                                         *)
(* Every StopMS invocation (direct, or deferred by a StopMSRequest timer)   *)
(* occupies one slot of `call`; the slot's pc is the line the goroutine is  *)
(* about to execute.  The goroutine killMSifOnlineAfterTimeout launched by  *)
(* call c is wd[c].  A goroutine that has returned keeps its result only.   *)
(***************************************************************************)
EXTENDS Integers, Sequences, FiniteSets, TLC

\* ---- bounds -------------------------------------------------------------
MaxCalls == 2       \* StopMS invocations (direct + deferred) in one behaviour
MaxGrace == 2       \* largest configured StopServerAllowKill
MaxPlayers == 1     \* largest player count countPlayerSafe reports

Calls == 1..MaxCalls

VARIABLES
    Status,                 \* Stats.Status
    StopMSRequests,         \* Stats.StopMSRequests
    StopServerAllowKill,    \* config.ConfigRuntime.Commands.StopServerAllowKill
    proc,                   \* ServTerm.cmd: the process started last
    call,                   \* the StopMS invocations
    wd,                     \* the killMSifOnlineAfterTimeout goroutines
    history,                \* what kind of calls the behaviour has seen so far
    alone                   \* the StopMSRequest call filed last, while it is undisturbed

vars == <<Status, StopMSRequests, StopServerAllowKill, proc, call, wd, history, alone>>

\* ---- values -------------------------------------------------------------
\* pc: "free", "timer", "wait", "gate", "dec", "count", "load", "exec", "done"
\* res: "none", "ok", "NotOnline", "NotEmpty", "Pending", "StopCommand"
\* count: the player count the call read, -1 before it reads one
\* logged: the timer's function passed the call's error to logger.Logln
NoCall == [pc |-> "free", check |-> FALSE, deferred |-> FALSE, res |-> "none", count |-> -1,
           logged |-> FALSE]

\* pc: "none"; "poll": before a test of Status in the countdown loop; "save": in
\*     the last sleep of the loop, then about to send save-all; "kill": in the
\*     10 s sleep, then about to send the kill signal; "done"
\* saved: "no", "ok", "failed": the outcome of Execute("save-all")
\* stale: a process was started after the stop command was sent, so that
\*     ServTerm.cmd is no longer the process the stop command went to
\* offSeen: Status became offline while the goroutine was in its countdown loop
NoWd == [pc |-> "none", countdown |-> 0, saved |-> "no", killed |-> FALSE,
         stale |-> FALSE, offSeen |-> FALSE]

NoProc == [alive |-> FALSE, killed |-> FALSE]

\* the lowest slot not yet used
FreeSlot == CHOOSE c \in Calls : call[c].pc = "free" /\ \A d \in Calls : d < c => call[d].pc # "free"

HasFree == \E c \in Calls : call[c].pc = "free"

\* no timer has fired and no StopMS has been called
NoneFired == \A c \in Calls : call[c].pc \in {"free", "timer"}

NoneUsed == \A c \in Calls : call[c].pc = "free"

\* no timer is outstanding and no StopMS call is running
AllReturned == \A c \in Calls : call[c].pc \in {"free", "done"}

\* history is "batch" while all that happened since the first StopMSRequest is
\* StopMSRequest calls filed with the server online, before any of their timers
\* fired, and their StopMS(true) calls finding no players; "requests" while
\* StopMS(true) has been called by timers only; "any" otherwise
Disturbed(h) == IF h = "batch" THEN "requests" ELSE h

\* alone is the slot of a StopMSRequest call that was filed with the server
\* online while no timer was outstanding and no StopMS call was running, for as
\* long as Status has not changed, no other call was made and the call has not
\* returned; 0 otherwise
Left(c) == IF alone = c THEN 0 ELSE alone

\* what the running killMSifOnlineAfterTimeout goroutines lived through when
\* Status is set to s ("starting" is set only when a process is launched)
Observe(s) == [c \in Calls |->
                 [wd[c] EXCEPT !.offSeen = @ \/ (s = "offline" /\ wd[c].pc \in {"poll", "save"}),
                               !.stale = @ \/ (s = "starting" /\ wd[c].pc \in {"poll", "save", "kill"})]]

Init ==
    /\ Status = "offline"
    /\ StopMSRequests = 0
    /\ StopServerAllowKill \in 0..MaxGrace
    /\ proc = NoProc
    /\ call = [c \in Calls |-> NoCall]
    /\ wd = [c \in Calls |-> NoWd]
    /\ history = "batch"
    /\ alone = 0

\* ---- the server terminal (outside servctrl.go) ----------------------------
SetStatus(s) ==
    /\ Status' = s
    /\ wd' = Observe(s)
    /\ history' = IF NoneUsed THEN history ELSE Disturbed(history)
    /\ alone' = 0
    /\ UNCHANGED <<StopMSRequests, StopServerAllowKill, call>>

\* cmdStart launches the process and the terminal reports "starting"
cmdStart ==
    /\ SetStatus("starting")
    /\ proc' = [alive |-> TRUE, killed |-> FALSE]

\* the server reports that it is ready
ServerOnline ==
    /\ Status = "starting"
    /\ proc.alive /\ ~proc.killed
    /\ SetStatus("online")
    /\ UNCHANGED proc

\* the server reports that it is shutting down
ServerStopping ==
    /\ Status = "online"
    /\ proc.alive /\ ~proc.killed
    /\ SetStatus("stopping")
    /\ UNCHANGED proc

\* the process exits: after a shutdown, or because it was killed
ServerExit ==
    /\ proc.alive
    /\ Status = "stopping" \/ proc.killed
    /\ SetStatus("offline")
    /\ proc' = [proc EXCEPT !.alive = FALSE]

\* ---- StartMS ------------------------------------------------------------
StartMS ==
    /\ Status = "offline"
    /\ \E err \in BOOLEAN :
          IF err THEN UNCHANGED vars ELSE cmdStart

\* ---- StopMS -------------------------------------------------------------
\* a slip: "server is not online" is logged like every other error
LoggedAll(deferred, err) == deferred /\ err # "ok"

\* lines 81-88: the function of the timer logs the error StopMS(true) returned
\* to it, unless it is "StopMS: server is not online"; a direct caller gets the
\* error and nothing is logged here
Logged(deferred, err) == deferred /\ err # "ok" /\ err # "NotOnline"

\* StopMS returns r; a deferred call returns to the function of its timer
Return(c, r) == [call EXCEPT ![c] = [NoCall EXCEPT !.pc = "done", !.res = r,
                                                   !.logged = Logged(call[c].deferred, r)]]

\* a caller invokes StopMS(playersCheck) directly
StopMSCall(check) ==
    /\ HasFree
    /\ call' = [call EXCEPT ![FreeSlot] = [NoCall EXCEPT !.pc = "wait", !.check = check]]
    /\ history' = IF check THEN "any" ELSE Disturbed(history)
    /\ alone' = 0
    /\ UNCHANGED <<Status, StopMSRequests, StopServerAllowKill, proc, wd>>

\* a slip: the loop on "starting" never entered
StartingNever(s) == FALSE

\* line 30: the loop condition
Starting(s) == s = "starting"

\* lines 30-32: test the loop condition; sleep and stay while the server is starting
StopMSWait(c) ==
    /\ call[c].pc = "wait"
    /\ call' = [call EXCEPT ![c].pc = IF Starting(Status) THEN "wait" ELSE "gate"]
    /\ UNCHANGED <<Status, StopMSRequests, StopServerAllowKill, proc, wd, history, alone>>

\* a slip: only an offline server is turned away
NotOnlineOfflineOnly(s) == s = "offline"

\* line 34: the status gate
NotOnline(s) == s # "online"

\* a slip: playersCheck ignored, every call runs the player/StopMSRequests check
StopMSGateAlwaysChecks(c) ==
    /\ call[c].pc = "gate"
    /\ call' = IF NotOnline(Status)
                  THEN Return(c, "NotOnline")
                  ELSE [call EXCEPT ![c].pc = "dec"]
    /\ UNCHANGED <<Status, StopMSRequests, StopServerAllowKill, proc, wd, history, alone>>

\* lines 34-39
StopMSGate(c) ==
    /\ call[c].pc = "gate"
    /\ call' = IF NotOnline(Status)
                  THEN Return(c, "NotOnline")
                  ELSE [call EXCEPT ![c].pc = IF call[c].check THEN "dec" ELSE "exec"]
    /\ UNCHANGED <<Status, StopMSRequests, StopServerAllowKill, proc, wd, history, alone>>

\* a slip: the request is not consumed before the player count is read
StopMSDecrementSkipped(c) ==
    /\ call[c].pc = "dec"
    /\ call' = [call EXCEPT ![c].pc = "count"]
    /\ UNCHANGED <<Status, StopMSRequests, StopServerAllowKill, proc, wd, history, alone>>

\* line 42: atomic.AddInt32(&Stats.StopMSRequests, -1), the sum discarded
StopMSDecrement(c) ==
    /\ call[c].pc = "dec"
    /\ StopMSRequests' = StopMSRequests - 1
    /\ call' = [call EXCEPT ![c].pc = "count"]
    /\ UNCHANGED <<Status, StopServerAllowKill, proc, wd, history, alone>>

\* a slip: off by one
NotEmptyAboveOne(playerCount) == playerCount > 1

\* line 47
NotEmpty(playerCount) == playerCount > 0

\* lines 45-49: countPlayerSafe and the occupancy check
StopMSCount(c) ==
    /\ call[c].pc = "count"
    /\ \E playerCount \in 0..MaxPlayers :
          /\ call' = IF NotEmpty(playerCount)
                        THEN [Return(c, "NotEmpty") EXCEPT ![c].count = playerCount]
                        ELSE [call EXCEPT ![c].pc = "load", ![c].count = playerCount]
          /\ history' = IF playerCount = 0 THEN history ELSE Disturbed(history)
          /\ alone' = IF NotEmpty(playerCount) THEN Left(c) ELSE alone
    /\ UNCHANGED <<Status, StopMSRequests, StopServerAllowKill, proc, wd>>

\* line 53
Pending(n) == n > 0

\* lines 53-55: atomic.LoadInt32(&Stats.StopMSRequests) and the pending check
StopMSLoad(c) ==
    /\ call[c].pc = "load"
    /\ call' = IF Pending(StopMSRequests)
                  THEN Return(c, "Pending")
                  ELSE [call EXCEPT ![c].pc = "exec"]
    /\ alone' = Left(c)
    /\ UNCHANGED <<Status, StopMSRequests, StopServerAllowKill, proc, wd, history>>

\* a slip: >= for >
AllowKillAlways(k) == k >= 0

\* line 65
AllowKill(k) == k > 0

\* line 66: go killMSifOnlineAfterTimeout(), and lines 94-96
Armed(c) == [wd EXCEPT ![c] = [NoWd EXCEPT !.pc = IF StopServerAllowKill > 0 THEN "poll" ELSE "save",
                                           !.countdown = StopServerAllowKill]]

\* a slip: errExec not checked before the watchdog is launched
StopMSExecuteUnchecked(c) ==
    /\ call[c].pc = "exec"
    /\ \E ok \in BOOLEAN :
          /\ ok => proc.alive
          /\ call' = Return(c, IF ok THEN "ok" ELSE "StopCommand")
          /\ wd' = IF AllowKill(StopServerAllowKill) THEN Armed(c) ELSE wd
    /\ UNCHANGED <<Status, StopMSRequests, StopServerAllowKill, proc, history, alone>>

\* lines 59-69: Execute(StopServer), which cannot succeed on a process that is gone
StopMSExecute(c) ==
    /\ call[c].pc = "exec"
    /\ \E ok \in BOOLEAN :
          /\ ok => proc.alive
          /\ IF ok
                THEN /\ call' = Return(c, "ok")
                     /\ wd' = IF AllowKill(StopServerAllowKill) THEN Armed(c) ELSE wd
                ELSE /\ call' = Return(c, "StopCommand")
                     /\ wd' = wd
    /\ UNCHANGED <<Status, StopMSRequests, StopServerAllowKill, proc, history, alone>>

\* ---- StopMSRequest ------------------------------------------------------
\* lines 74-79: count the request and start its timer
StopMSRequest ==
    /\ HasFree
    /\ StopMSRequests' = StopMSRequests + 1
    /\ call' = [call EXCEPT ![FreeSlot] =
                   [NoCall EXCEPT !.pc = "timer", !.check = TRUE, !.deferred = TRUE]]
    /\ history' = IF NoneFired /\ Status = "online" THEN history ELSE Disturbed(history)
    /\ alone' = IF AllReturned /\ Status = "online" THEN FreeSlot ELSE 0
    /\ UNCHANGED <<Status, StopServerAllowKill, proc, wd>>

\* a slip: a periodic timer, which calls StopMS(true) again after a call returned
TimerFireAgain(c) ==
    /\ call[c].pc \in {"timer", "done"}
    /\ call' = [call EXCEPT ![c] = [NoCall EXCEPT !.pc = "wait", !.check = TRUE, !.deferred = TRUE]]
    /\ UNCHANGED <<Status, StopMSRequests, StopServerAllowKill, proc, wd, history, alone>>

\* lines 80-81: the timer fires and calls StopMS(true)
TimerFire(c) ==
    /\ call[c].pc = "timer"
    /\ call' = [call EXCEPT ![c].pc = "wait"]
    /\ UNCHANGED <<Status, StopMSRequests, StopServerAllowKill, proc, wd, history, alone>>

\* ---- killMSifOnlineAfterTimeout -----------------------------------------
Finished(c, saved, killed) == [wd EXCEPT ![c] = [NoWd EXCEPT !.pc = "done", !.saved = saved,
                                                             !.killed = killed]]

\* lines 96-104: one turn of the countdown loop: the test of Status and the
\* decrement; after the last turn the goroutine sleeps its last second at "save"
KillPoll(c) ==
    /\ wd[c].pc = "poll"
    /\ wd' = IF Status = "offline"
                THEN Finished(c, "no", FALSE)
                ELSE [wd EXCEPT ![c].countdown = @ - 1,
                                ![c].pc = IF wd[c].countdown > 1 THEN "poll" ELSE "save"]
    /\ UNCHANGED <<Status, StopMSRequests, StopServerAllowKill, proc, call, history, alone>>

\* a slip: the error of Execute("save-all") ends the goroutine
KillSaveChecked(c) ==
    /\ wd[c].pc = "save"
    /\ \E ok \in BOOLEAN :
          /\ ok => proc.alive
          /\ wd' = IF ok THEN [wd EXCEPT ![c].pc = "kill", ![c].saved = "ok"]
                         ELSE Finished(c, "failed", FALSE)
    /\ UNCHANGED <<Status, StopMSRequests, StopServerAllowKill, proc, call, history, alone>>

\* lines 106-111: Execute("save-all"), its error dropped
KillSave(c) ==
    /\ wd[c].pc = "save"
    /\ \E ok \in BOOLEAN :
          /\ ok => proc.alive
          /\ wd' = [wd EXCEPT ![c].pc = "kill", ![c].saved = IF ok THEN "ok" ELSE "failed"]
    /\ UNCHANGED <<Status, StopMSRequests, StopServerAllowKill, proc, call, history, alone>>

\* lines 113-118: ServTerm.cmd.Process.Kill(), its error only logged
KillSignal(c) ==
    /\ wd[c].pc = "kill"
    /\ wd' = Finished(c, wd[c].saved, TRUE)
    /\ proc' = [proc EXCEPT !.killed = @ \/ proc.alive]
    /\ UNCHANGED <<Status, StopMSRequests, StopServerAllowKill, call, history, alone>>

\* ---- specification ------------------------------------------------------
Next ==
    \/ StartMS
    \/ ServerOnline
    \/ ServerStopping
    \/ ServerExit
    \/ \E check \in BOOLEAN : StopMSCall(check)
    \/ StopMSRequest
    \/ \E c \in Calls : TimerFire(c)
    \/ \E c \in Calls : StopMSWait(c)
    \/ \E c \in Calls : StopMSGate(c)
    \/ \E c \in Calls : StopMSDecrement(c)
    \/ \E c \in Calls : StopMSCount(c)
    \/ \E c \in Calls : StopMSLoad(c)
    \/ \E c \in Calls : StopMSExecute(c)
    \/ \E c \in Calls : KillPoll(c)
    \/ \E c \in Calls : KillSave(c)
    \/ \E c \in Calls : KillSignal(c)

Spec == Init /\ [][Next]_vars

\* ---- StopMS(true) and the players -----------------------------------------
\* C1: a StopMS(true) call that read a player count greater than zero has
\* returned "server is not empty" (so it never reached the stop command of
\* line 59) and has launched no killMSifOnlineAfterTimeout.
C1_NotEmptyNeverStops ==
    \A c \in Calls :
        call[c].count > 0 =>
            /\ call[c].pc = "done"
            /\ call[c].res = "NotEmpty"
            /\ wd[c] = NoWd

C1_Witness == \E c \in Calls : call[c].count > 0 /\ call[c].res = "NotEmpty"

\* ---- the debounce ---------------------------------------------------------
\* the calls that have executed the stop command (line 59)
Issued == {c \in Calls : call[c].res \in {"ok", "StopCommand"}}

\* C2: of a batch of StopMSRequest calls filed with the server online and
\* empty, at most one deferred StopMS(true) executes the stop command, and once
\* all have returned exactly one has and every other one returned "not enough
\* time has passed" (pending requests).
C2_OneStopPerBatch ==
    history = "batch" =>
        /\ Cardinality(Issued) <= 1
        /\ (AllReturned /\ ~NoneUsed) =>
              /\ Cardinality(Issued) = 1
              /\ \A c \in Calls \ Issued : call[c].pc = "done" => call[c].res = "Pending"

\* C3: when only StopMSRequest has called StopMS(true), and every timer has
\* fired and every deferred call has returned, StopMSRequests is 0.
C3_CounterDrains ==
    (history # "any" /\ AllReturned) => StopMSRequests = 0

\* ---- the wait on "starting" ----------------------------------------------
\* C4: a StopMS call in the loop of line 30 stays there, and does nothing
\* else, in every step taken while Status is "starting"; it leaves the loop
\* only in a step taken with Status different from "starting", and that step
\* does nothing but leave the loop.
C4_WaitsWhileStarting ==
    [][\A c \in Calls :
          call[c].pc = "wait" =>
              /\ Status = "starting" => call'[c] = call[c]
              /\ call'[c] # call[c] =>
                    /\ call'[c] = [call[c] EXCEPT !.pc = "gate"]
                    /\ UNCHANGED <<Status, StopMSRequests, proc, wd>>]_vars

C4_Witness == \E c \in Calls : call[c].pc = "wait" /\ call[c].deferred /\ Status = "starting"

\* ---- StopServerAllowKill = 0 ----------------------------------------------
\* C5: with StopServerAllowKill = 0 no killMSifOnlineAfterTimeout is ever
\* launched, and neither save-all nor the kill signal is ever sent.
C5_NoKillWhenDisallowed ==
    StopServerAllowKill = 0 =>
        /\ \A c \in Calls : wd[c] = NoWd
        /\ ~proc.killed

C5_Witness == StopServerAllowKill = 0 /\ \E c \in Calls : call[c].res = "ok"

C7_OfflineDisarms ==
    \A c \in Calls : wd[c].offSeen => wd[c].saved = "no" /\ ~wd[c].killed

\* C8: at most one killMSifOnlineAfterTimeout is running at any time.
Running == {c \in Calls : wd[c].pc \in {"poll", "save", "kill"}}

C8_OneWatchdog == Cardinality(Running) <= 1

\* ---- the errors of StopMS --------------------------------------------------
\* C9: a StopMS call that finds Status different from "online" at line 34
\* returns "server is not online" in that step, which changes nothing else:
\* StopMSRequests, Status, the process and the watchdogs are as before and no
\* player count was read; and "server is not online" is returned nowhere else.
C9_NotOnlineNoEffect ==
    [][\A c \in Calls :
          /\ (call[c].pc = "gate" /\ call'[c].pc # "gate" /\ Status # "online") =>
                /\ call'[c].pc = "done" /\ call'[c].res = "NotOnline"
                /\ UNCHANGED <<Status, StopMSRequests, proc, wd>>
          /\ call'[c].res = "NotOnline" =>
                /\ call[c].res = "NotOnline" \/ (call[c].pc = "gate" /\ Status # "online")
                /\ call'[c].count = -1 /\ wd'[c] = NoWd]_vars

C9_Witness == \E c \in Calls : call[c].res = "NotOnline" /\ Status = "stopping"

\* C10: a StopMS call whose stop command could not be delivered returns the
\* stop command error in that step, which leaves Status and the watchdogs as
\* they were; the call has launched no killMSifOnlineAfterTimeout.
C10_StopCommandError ==
    [][\A c \in Calls :
          call'[c].res = "StopCommand" =>
              /\ wd'[c] = NoWd
              /\ call[c].res # "StopCommand" =>
                    /\ call[c].pc = "exec"
                    /\ UNCHANGED <<Status, StopMSRequests, proc, wd>>]_vars

C10_Witness == \E c \in Calls : call[c].res = "StopCommand" /\ StopServerAllowKill > 0

\* ---- the scenarios --------------------------------------------------------
\* C11: a process is launched only with Status "offline" and the launch makes
\* Status "starting"; a StopMS(false) call that finds Status "online" at line
\* 34 goes straight to the stop command of line 59, whatever StopMSRequests
\* is and without reading a player count, and returns nil unless Execute
\* itself failed; no step of the call changes StopMSRequests.
C11_ScenarioA ==
    [][/\ (proc'.alive /\ ~proc.alive) => Status = "offline" /\ Status' = "starting"
       /\ \A c \in Calls :
             (~call[c].check /\ call[c].pc \in {"wait", "gate", "exec"} /\ call'[c] # call[c]) =>
                 /\ StopMSRequests' = StopMSRequests
                 /\ call'[c].count = -1
                 /\ (call[c].pc = "gate" /\ Status = "online") => call'[c].pc = "exec"
                 /\ call[c].pc = "exec" =>
                       call'[c].pc = "done" /\ call'[c].res \in {"ok", "StopCommand"}]_vars

C11_Witness ==
    \E c \in Calls : /\ ~call[c].check /\ call[c].pc = "exec"
                     /\ Status = "online" /\ StopMSRequests > 0 /\ proc.alive

\* the only call made so far is c, and it was deferred by StopMSRequest
OnlyRequest(c) == history # "any" /\ \A d \in Calls \ {c} : call[d].pc = "free"

\* C12: a StopMS(true) call decrements StopMSRequests by one (line 42) before
\* it reads the player count (line 45); a call that reads a count greater than
\* zero returns "server is not empty" in that step, which leaves Status, the
\* decremented StopMSRequests, the process and the watchdogs as they are; and
\* when the call was deferred by the only StopMSRequest made, StopMSRequests
\* is 0 (1 - 1) once it has returned "server is not empty".
C12_ScenarioB ==
    [][\A c \in Calls :
          /\ (call[c].pc = "dec" /\ call'[c] # call[c]) =>
                /\ StopMSRequests' = StopMSRequests - 1
                /\ call'[c].pc = "count" /\ call'[c].count = -1
          /\ (call'[c].count # call[c].count /\ call'[c].count >= 0) => call[c].pc = "count"
          /\ (call[c].pc = "count" /\ call'[c].count > 0) =>
                /\ call'[c].pc = "done" /\ call'[c].res = "NotEmpty"
                /\ UNCHANGED <<Status, StopMSRequests, proc, wd>>
          /\ (OnlyRequest(c)' /\ call'[c].res = "NotEmpty") =>
                StopMSRequests' = 0 /\ Issued' = {}]_vars

C12_Witness ==
    \E c \in Calls : /\ OnlyRequest(c) /\ call[c].res = "NotEmpty" /\ call[c].count = MaxPlayers
                     /\ Status = "online" /\ StopMSRequests = 0

\* ---- the errors of a deferred StopMS(true) ---------------------------------
\* C13: when the StopMS(true) call of a StopMSRequest timer returns, its error
\* is passed to the logger in that step, once, unless it is nil or "server is
\* not online"; nothing is logged for a call at any other step or for a direct
\* call; and StopMSRequest itself returns nothing: it only counts the request
\* and starts the timer.
C13_DeferredErrorsLogged ==
    [][\A c \in Calls :
          /\ (call[c].pc \notin {"free", "done"} /\ call'[c].pc = "done") =>
                call'[c].logged = (/\ call[c].deferred
                                   /\ call'[c].res \in {"NotEmpty", "Pending", "StopCommand"})
          /\ call[c].pc = "done" => call'[c] = call[c]
          /\ call'[c].pc # "done" => ~call'[c].logged
          /\ (call[c].pc = "free" /\ call'[c].deferred) =>
                /\ call'[c] = [NoCall EXCEPT !.pc = "timer", !.check = TRUE, !.deferred = TRUE]
                /\ StopMSRequests' = StopMSRequests + 1
                /\ UNCHANGED <<Status, proc, wd>>]_vars

C13_Witness ==
    \E c, d \in Calls : /\ call[c].logged /\ call[c].res = "Pending"
                        /\ call[d].res = "NotOnline" /\ ~call[d].logged
                        /\ history = "requests" /\ StopMSRequests = 1

\* ---- Stats.StopMSRequests --------------------------------------------------
\* C14: StopMSRequests, the number of increments (line 75) less the number of
\* decrements (line 42) performed so far, is never negative.
C14_CounterNonNegative == StopMSRequests >= 0

\* C15: between the decrement of a StopMS(true) call (line 42) and its pending
\* check (line 53) no other call decrements StopMSRequests, so that the value
\* the call compares against 0 is not lower than the one its own decrement
\* produced.  Stated for StopMS(true) calls made by StopMSRequest timers.
C15_OwnDecrementValue ==
    [][\A c \in Calls :
          (history # "any" /\ call[c].pc \in {"count", "load"} /\ call'[c] = call[c]) =>
              StopMSRequests' >= StopMSRequests]_vars

\* C16: a StopMS(true) call that reads a negative StopMSRequests at its pending
\* check (line 53) does not go on to the stop command of line 59.
C16_NegativeAborts ==
    [][\A c \in Calls :
          (call[c].pc = "load" /\ StopMSRequests < 0) => call'[c].pc # "exec"]_vars

\* ---- no retry --------------------------------------------------------------
\* C17: once a deferred StopMS(true) has returned "server is not empty" and no
\* timer is outstanding and no StopMS call is running, the only step that
\* changes any call is a new StopMSRequest or a new StopMS call; no stop
\* command is executed except by a running call at line 59, and a call that
\* has returned never runs again.
C17_NoRetry ==
    [][/\ (AllReturned /\ \E c \in Calls : call[c].res = "NotEmpty" /\ call[c].logged) =>
             \/ call' = call
             \/ \E c \in Calls : /\ call[c].pc = "free" /\ call'[c].pc \in {"timer", "wait"}
                                 /\ \A d \in Calls \ {c} : call'[d] = call[d]
       /\ \A c \in Calls :
             /\ (call'[c].res \in {"ok", "StopCommand"} /\ call[c].res = "none") =>
                   call[c].pc = "exec"
             /\ call[c].pc = "done" => call'[c] = call[c]]_vars

C17_Witness ==
    /\ AllReturned /\ Status = "online" /\ StopMSRequests = 0
    /\ \E c \in Calls : call[c].res = "NotEmpty" /\ call[c].logged
    /\ \E c \in Calls : call[c].pc = "free"

C19_KillsOwnProcess ==
    [][\A c \in Calls :
          (wd[c].pc \in {"save", "kill"} /\ wd'[c].pc # wd[c].pc) =>
              Status # "offline" /\ ~wd[c].stale]_vars

\* ---- a request after earlier ones -------------------------------------------
\* C20: whatever happened before, a StopMSRequest call filed with the server
\* online while no timer is outstanding and no StopMS call is running, whose
\* deferred StopMS(true) reaches the pending check of line 53 with Status
\* unchanged, no players and no other call made meanwhile, passes that check
\* and goes on to the stop command; the requests whose timers fired earlier do
\* not count against it.
C20_NewRequestStops ==
    [][\A c \in Calls :
          (alone = c /\ call[c].pc = "load" /\ call'[c] # call[c]) => call'[c].pc = "exec"]_vars

====
